---- MODULE Spec2Model ----
(***************************************************************************)
(* A model of augraphy's LightingGradient augmentation                     *)
(* (augraphy/augmentations/lightinggradient.py).                           *)
(*                                                                         *)
(* Representation.                                                         *)
(*  - None is NoneInt (-1) for an optional integer and the empty tuple     *)
(*    for an optional pair.                                                *)
(*  - A float is an exact rational <<numerator, denominator>>; the decay   *)
(*    rate and every profile value are such pairs.  np.exp is evaluated in *)
(*    fixed point with denominator Milli.                                  *)
(*  - transparency is an integer number of hundredths.                     *)
(*  - The random module is a generator state rng in 0..RngMod-1; a draw    *)
(*    reads a value determined by the state and advances the state.        *)
(*  - A raster is a function from <<x, y>> (column, row) to a sample.      *)
(*  - Directions are the multiples of 90 degrees, for which                *)
(*    cv2.getRotationMatrix2D has integer entries and cv2.warpAffine       *)
(*    copies samples without interpolation.                                *)
(*  - Of a colour pixel only the HSV value plane is tracked: hue and       *)
(*    saturation are written by no statement of the program.               *)
(***************************************************************************)
EXTENDS Integers, Sequences, FiniteSets, TLC

VARIABLES
    cfg,            \* the fields __init__ stores (lines 54-60)
    image,          \* the image argument of __call__
    extras,         \* the mask, keypoints and bounding_boxes arguments
    force,          \* the force argument
    answer,         \* what should_run() answered: "true", "false", "unasked"
    ran,            \* whether the gate of line 203 let the call run
    rng,            \* the state of the random generator
    rng0,           \* the state the generator had when the operation began
    pc,             \* the position of the running operation
    caller,         \* who called generate_parallel_light_mask
    frame,          \* frame (lines 204-209)
    image_alpha,    \* image_alpha (line 209)
    has_alpha,      \* has_alpha (lines 206-208)
    transparency,   \* transparency (lines 211-214)
    margs,          \* the arguments of generate_parallel_light_mask
    loc,            \* its locals once the defaults are resolved
    canvas,         \* the padded canvas (lines 113-127)
    lmask,          \* mask (lines 131-142)
    outside,        \* the crop pixels warpAffine read from outside the canvas
    ret,            \* the value returned
    log,            \* the draws, allocations and stages so far, in order
    calls,          \* the number of invocations begun
    prevRet         \* the value the previous invocation returned

vars == <<cfg, image, extras, force, answer, ran, rng, rng0, pc, caller, frame,
          image_alpha, has_alpha, transparency, margs, loc, canvas, lmask,
          outside, ret, log, calls, prevRet>>

\* ------------------------------------------------------------------ bounds
MaxDim == 2          \* largest image width and height explored
RngMod == 2          \* number of states of the random generator
MaxCalls == 2        \* invocations of one object that are followed

\* --------------------------------------------------------------- constants
NoneInt == -1
NonePair == <<>>
Milli == 1000        \* denominator of the fixed-point exponential
ExpNeg1 == 368       \* exp(-1) in thousandths
KSize == 9           \* cv2.medianBlur(mask, 9)
MaxSample == 255     \* largest uint8 sample, 255 - mask and frame[frame > 255]
DefaultMax == 255    \* max_brightness=255
DefaultMin == 0      \* min_brightness=0

Max2(a, b) == IF a >= b THEN a ELSE b
Min2(a, b) == IF a <= b THEN a ELSE b
Abs(a) == IF a < 0 THEN -a ELSE a

ValidModes == {"linear_dynamic", "linear_static", "gaussian"}
Modes == ValidModes \cup {"not_a_mode"}

\* ------------------------------------------------------------ random source
RngStates == 0 .. (RngMod - 1)
NextRng(r) == (r + 1) % RngMod

\* random.randint(lo, hi): an integer of lo..hi, both ends included
RandInt(r, lo, hi) == hi - (r % (hi - lo + 1))

\* random.randint(0, 360), restricted to the multiples of 90
DirectionDraws == <<0, 90, 180, 270, 360>>
RandDirection(r) == DirectionDraws[(r % Len(DirectionDraws)) + 1]

\* random.uniform(0.2, 2): the two ends of the interval, as rationals
RateDraws == << <<2, 10>>, <<20, 10>> >>
RandRate(r) == RateDraws[(r % Len(RateDraws)) + 1]

\* random.uniform(0.5, 0.85): the two ends of the interval, in hundredths
TransparencyDraws == <<50, 85>>
RandTransparency(r) == TransparencyDraws[(r % Len(TransparencyDraws)) + 1]

\* ------------------------------------------------- parameter resolution
\* lines 96-101: the position is drawn (two draws) when it is None
PositionUnset(position) == position = NonePair

\* lines 102-103: the direction is drawn when it is None
DirectionUnset(direction) == direction = NoneInt

RateDrawnM(mode, linear_decay_rate) ==
    linear_decay_rate = NonePair /\ mode \notin {"gaussian", "linear_dynamic"}

\* lines 104-106: the rate is drawn only when it is None in linear_static mode
RateDrawn(mode, linear_decay_rate) ==
    linear_decay_rate = NonePair /\ mode = "linear_static"

\* lines 107-109: change invalid mode into gaussian
NormalizeMode(mode) == IF mode \notin ValidModes THEN "gaussian" ELSE mode

\* lines 110-111: the derived rate of linear_dynamic
DynamicRate(max_brightness, min_brightness, w, h) ==
    <<max_brightness - min_brightness, Max2(w, h)>>

\* lines 96-111 of generate_parallel_light_mask: the locals after the
\* defaults are resolved, the generator state left behind and the draws made
ResolveMaskParams(a, r) ==
    LET r1  == IF PositionUnset(a.position) THEN NextRng(NextRng(r)) ELSE r
        px  == IF PositionUnset(a.position) THEN RandInt(r, 0, a.w)
               ELSE a.position[1]
        py  == IF PositionUnset(a.position) THEN RandInt(NextRng(r), 0, a.h)
               ELSE a.position[2]
        r2  == IF DirectionUnset(a.direction) THEN NextRng(r1) ELSE r1
        dir == IF DirectionUnset(a.direction) THEN RandDirection(r1)
               ELSE a.direction
        r3  == IF RateDrawn(a.mode, a.linear_decay_rate) THEN NextRng(r2) ELSE r2
        rt  == IF RateDrawn(a.mode, a.linear_decay_rate) THEN RandRate(r2)
               ELSE a.linear_decay_rate
        md  == NormalizeMode(a.mode)
        rt2 == IF md = "linear_dynamic"
               THEN DynamicRate(a.max_brightness, a.min_brightness, a.w, a.h)
               ELSE rt
    IN  [pos_x |-> px, pos_y |-> py, direction |-> dir, mode |-> md,
         linear_decay_rate |-> rt2, rng |-> r3,
         events |-> (IF PositionUnset(a.position)
                       THEN <<"draw_position">> ELSE <<>>)
                    \o (IF DirectionUnset(a.direction)
                       THEN <<"draw_direction">> ELSE <<>>)
                    \o (IF RateDrawn(a.mode, a.linear_decay_rate)
                       THEN <<"draw_rate">> ELSE <<>>)]

\* ------------------------------------------------------- decay profiles
\* 1000 * exp(-f/1000) for 0 <= f < 1000, by the series of exp
ExpNegFrac(f) ==
    LET t2 == (f * f) \div (2 * Milli)
        t3 == (t2 * f) \div (3 * Milli)
        t4 == (t3 * f) \div (4 * Milli)
        t5 == (t4 * f) \div (5 * Milli)
        t6 == (t5 * f) \div (6 * Milli)
    IN  Milli - f + t2 - t3 + t4 - t5 + t6

\* 1000 * exp(-q) for a natural number q
RECURSIVE ExpNegInt(_)
ExpNegInt(q) ==
    IF q = 0 THEN Milli
    ELSE IF q >= 7 THEN 0
    ELSE (ExpNegInt(q - 1) * ExpNeg1) \div Milli

\* np.exp(-n/m) in thousandths, n >= 0 and m > 0
ExpNegMilli(n, m) ==
    (ExpNegInt(n \div m) * ExpNegFrac((Milli * (n % m)) \div m)) \div Milli

\* lines 167-173: the value of the Gaussian profile at index x.
\* radius = grange / 3 and u = (x - center) / |radius|, so
\* u * u / 2 = 9 (x - center)^2 / (2 grange^2); x_prob / center_prob is
\* exp(-u * u / 2).
NormValue(x, max_value, min_value, center, grange) ==
    LET d     == x - center
        ratio == ExpNegMilli(9 * d * d, 2 * grange * grange)
    IN  <<ratio * (max_value - min_value) + min_value * Milli, Milli>>

LinearValueM(x, max_value, padding_center, decay_rate) ==
    LET x_value == max_value * decay_rate[2]
                   - Abs(padding_center - x) * decay_rate[1]
    IN  <<Max2(decay_rate[2], x_value), decay_rate[2]>>

\* lines 194-196: the value of the linear profile at index x
LinearValue(x, max_value, padding_center, decay_rate) ==
    LET x_value == max_value * decay_rate[2]
                   - Abs(padding_center - x) * decay_rate[1]
    IN  IF x_value < 0 THEN <<decay_rate[2], decay_rate[2]>>
        ELSE <<x_value, decay_rate[2]>>

\* lines 165-174: apply_decay_value_norm fills mask[x] for x in range(canvas_y)
apply_decay_value_norm(canvas_y, max_value, min_value, center, grange) ==
    [x \in 0 .. (canvas_y - 1) |->
        NormValue(x, max_value, min_value, center, grange)]

\* lines 193-197: apply_decay_value_linear fills mask[x] for x in range(canvas_y)
apply_decay_value_linear(canvas_y, max_value, padding_center, decay_rate) ==
    [x \in 0 .. (canvas_y - 1) |->
        LinearValue(x, max_value, padding_center, decay_rate)]

\* --------------------------------------------------------- mask canvas
\* the largest p with p * p <= n
RECURSIVE ISqrtFrom(_, _)
ISqrtFrom(n, p) == IF (p + 1) * (p + 1) > n THEN p ELSE ISqrtFrom(n, p + 1)

\* line 113: padding = int(max(mask_size) * np.sqrt(2))
Padding(w, h) == ISqrtFrom(2 * Max2(w, h) * Max2(w, h), 0)

\* lines 113-127: the padded canvas, its anchor and its profile.  Row y of
\* the canvas holds profile[y] in every column.
BuildCanvasOf(a, lc) ==
    LET padding  == Padding(a.w, a.h)
        canvas_x == padding * 2 + a.w
        canvas_y == padding * 2 + a.h
        light_x  == padding + lc.pos_x
        light_y  == padding + lc.pos_y
    IN  [padding |-> padding, canvas_x |-> canvas_x, canvas_y |-> canvas_y,
         light_x |-> light_x, light_y |-> light_y,
         profile |->
            IF lc.mode = "gaussian"
            THEN apply_decay_value_norm(canvas_y, a.max_brightness,
                                        a.min_brightness, light_y, a.h)
            ELSE apply_decay_value_linear(canvas_y, a.max_brightness,
                                          light_y, lc.linear_decay_rate)]

\* ------------------------------------------------------ rotation and crop
\* cos and sin of a multiple of 90 degrees
Cos90(direction) ==
    CASE direction % 360 = 0 -> 1
      [] direction % 360 = 90 -> 0
      [] direction % 360 = 180 -> -1
      [] direction % 360 = 270 -> 0
Sin90(direction) ==
    CASE direction % 360 = 0 -> 0
      [] direction % 360 = 90 -> 1
      [] direction % 360 = 180 -> 0
      [] direction % 360 = 270 -> -1

\* lines 130-131: the canvas point that warpAffine reads for the output point
\* <<x, y>>: the inverse of the matrix of getRotationMatrix2D(center, angle, 1)
SourcePoint(c, direction, x, y) ==
    LET al == Cos90(direction)
        be == Sin90(direction)
    IN  <<al * (x - c.light_x) - be * (y - c.light_y) + c.light_x,
          be * (x - c.light_x) + al * (y - c.light_y) + c.light_y>>

InCanvas(c, p) ==
    /\ 0 <= p[1] /\ p[1] < c.canvas_x
    /\ 0 <= p[2] /\ p[2] < c.canvas_y

Pixels(w, h) == (0 .. (w - 1)) \X (0 .. (h - 1))

\* lines 130-136: rotate about the anchor, crop to the unpadded rectangle.
\* A point outside the canvas reads the constant border, 0.
RotateCropOf(a, c, direction) ==
    [p \in Pixels(a.w, a.h) |->
        LET s == SourcePoint(c, direction, c.padding + p[1], c.padding + p[2])
        IN  IF InCanvas(c, s) THEN c.profile[s[2]] ELSE <<0, 1>>]

\* the crop pixels whose source point lies outside the canvas
OutsideReads(a, c, direction) ==
    {p \in Pixels(a.w, a.h) :
        ~InCanvas(c, SourcePoint(c, direction,
                                 c.padding + p[1], c.padding + p[2]))}

\* ------------------------------------------------------------ mask finisher
\* line 137: np.asarray(mask, dtype=np.uint8) of a non-negative value
ToUint8(v) == (v[1] \div v[2]) % (MaxSample + 1)

Clamp(i, n) == Max2(0, Min2(n - 1, i))

\* line 139: the median of the KSize x KSize neighbourhood, border replicated
Median(m, w, h, p) ==
    LET half == KSize \div 2
        nb   == ((-half) .. half) \X ((-half) .. half)
        val(d) == m[<<Clamp(p[1] + d[1], w), Clamp(p[2] + d[2], h)>>]
        rank == (KSize * KSize + 1) \div 2
    IN  CHOOSE v \in {val(d) : d \in nb} :
            /\ Cardinality({d \in nb : val(d) < v}) < rank
            /\ Cardinality({d \in nb : val(d) <= v}) >= rank

\* lines 137-140: cast to uint8, median blur, inversion
FinishOf(a, rotated) ==
    LET bytes == [p \in Pixels(a.w, a.h) |-> ToUint8(rotated[p])]
    IN  [p \in Pixels(a.w, a.h) |-> MaxSample - Median(bytes, a.w, a.h, p)]

\* lines 96-142: generate_parallel_light_mask as a function of its arguments
\* and of the generator state
generate_parallel_light_mask(a, r) ==
    LET lc == ResolveMaskParams(a, r)
        c   == BuildCanvasOf(a, lc)
    IN  [mask |-> FinishOf(a, RotateCropOf(a, c, lc.direction)),
         rng |-> lc.rng, events |-> lc.events]

\* ---------------------------------------------------------------- values
\* an image: width, height, number of dimensions of the array, number of
\* channels, the value plane v and the alpha plane a (NonePair when absent)
NoRaster == <<>>
NoImage == [w |-> 0, h |-> 0, ndim |-> 0, ch |-> 0, v |-> NoRaster, a |-> NoRaster]

ValuePlane(w, h) == [p \in Pixels(w, h) |-> 40 * (p[1] + p[2]) + 8]
AlphaPlane(w, h) == [p \in Pixels(w, h) |-> 200 - 30 * p[1] - 7 * p[2]]

\* the rasters with 1, 3 or 4 channels: (h, w), (h, w, 1), (h, w, 3), (h, w, 4)
Kinds == {<<2, 1>>, <<3, 1>>, <<3, 3>>, <<3, 4>>}
ImageSizes == {1, MaxDim} \X {1, MaxDim}
Images ==
    {[w |-> sz[1], h |-> sz[2], ndim |-> k[1], ch |-> k[2],
      v |-> ValuePlane(sz[1], sz[2]),
      a |-> IF k[2] = 4 THEN AlphaPlane(sz[1], sz[2]) ELSE NoRaster] :
        sz \in ImageSizes, k \in Kinds}

NoArgs == [w |-> 0, h |-> 0, position |-> NonePair, direction |-> NoneInt,
           max_brightness |-> 0, min_brightness |-> 0, mode |-> "",
           linear_decay_rate |-> NonePair]
NoLoc == [pos_x |-> 0, pos_y |-> 0, direction |-> NoneInt, mode |-> "",
          linear_decay_rate |-> NonePair]
NoCanvas == [padding |-> 0, canvas_x |-> 0, canvas_y |-> 0, light_x |-> 0,
             light_y |-> 0, profile |-> <<>>]
NoExtras == [mask |-> NoneInt, keypoints |-> NoneInt, bounding_boxes |-> NoneInt]
NoCfg == [light_position |-> NonePair, direction |-> NoneInt,
          max_brightness |-> 0, min_brightness |-> 0, mode |-> "",
          linear_decay_rate |-> NonePair, transparency |-> NoneInt]

\* what a call returns: None, an image, or the list [image, mask, keypoints,
\* bounding_boxes]
RetNone == [kind |-> "None", image |-> NoImage, extras |-> NoExtras,
            mask |-> NoRaster]
RetImage(img) == [kind |-> "image", image |-> img, extras |-> NoExtras,
                  mask |-> NoRaster]
RetList(img, ex) == [kind |-> "list", image |-> img, extras |-> ex,
                     mask |-> NoRaster]
RetMask(m) == [kind |-> "mask", image |-> NoImage, extras |-> NoExtras,
               mask |-> m]

\* --------------------------------------------------------------- __call__
\* line 203: should_run() is asked only when force is false
Answers(f) == IF f THEN {"unasked"} ELSE {"true", "false"}

GateM(f, should_run) == TRUE

\* line 203: force or self.should_run()
Gate(f, should_run) == f \/ should_run

\* lines 206-208: the image carries an alpha channel
HasAlpha(img) == img.ndim > 2 /\ img.ch = 4

\* line 209: frame[:, :, :3]
ColorPart(img) == [img EXCEPT !.ch = 3, !.a = NoRaster]

AlphaPartM(img) == img.v

\* line 209: frame[:, :, 3]
AlphaPart(img) == img.a

TransparencyUnsetM(t) == TRUE

\* lines 211-214: transparency is drawn when it is None
TransparencyUnset(t) == t = NoneInt

\* lines 217-221: cv2.cvtColor accepts BGR2HSV on 3 channels only; a 2-D
\* array is first promoted with GRAY2BGR
ConvertsToHSV(fr) == fr.ndim = 2 \/ fr.ch = 3

\* line 232: hsv[:, :, 2] * transparency + lighting_mask * (1 - transparency),
\* stored into the uint8 value plane
Blend(v, m, t) == ((v * t + m * (100 - t)) \div 100) % (MaxSample + 1)

\* lines 233-235: back to BGR (three channels), clamp, cast to uint8
ToBGR(fr, plane) ==
    [fr EXCEPT !.ndim = 3, !.ch = 3,
               !.v = [p \in DOMAIN plane |-> Min2(plane[p], MaxSample)]]

\* lines 237-238: np.dstack((frame, image_alpha))
Reattach(fr, alpha) == [fr EXCEPT !.ch = 4, !.a = alpha]

AnyExtraM(ex) == ex.mask # NoneInt

\* line 242: any of the three pass-through arguments is supplied
AnyExtra(ex) ==
    ex.mask # NoneInt \/ ex.keypoints # NoneInt \/ ex.bounding_boxes # NoneInt

\* lines 240-250: the value returned by a call that ran
Output(fr, ex) == IF AnyExtra(ex) THEN RetList(fr, ex) ELSE RetImage(fr)

\* lines 202-214: the gate; the copy of the image, the split of the alpha
\* channel and the transparency of a call that runs.  A call that does not
\* run falls off the end of the function.
Call ==
    /\ pc = "idle"
    /\ \E should_run \in Answers(force) :
        /\ answer' = should_run
        /\ IF Gate(force, should_run = "true")
           THEN /\ ran' = TRUE
                /\ has_alpha' = HasAlpha(image)
                /\ frame' = IF HasAlpha(image) THEN ColorPart(image)
                             ELSE image
                /\ image_alpha' = IF HasAlpha(image) THEN AlphaPart(image)
                                  ELSE NoRaster
                /\ IF TransparencyUnset(cfg.transparency)
                   THEN /\ transparency' = RandTransparency(rng)
                        /\ rng' = NextRng(rng)
                        /\ log' = log \o <<"alloc_copy", "draw_transparency">>
                   ELSE /\ transparency' = cfg.transparency
                        /\ rng' = rng
                        /\ log' = log \o <<"alloc_copy">>
                /\ pc' = "convert"
                /\ ret' = ret
           ELSE /\ ran' = FALSE
                /\ ret' = RetNone
                /\ pc' = "done"
                /\ UNCHANGED <<has_alpha, frame, image_alpha, transparency,
                               rng, log>>
    /\ UNCHANGED <<cfg, image, extras, force, rng0, caller, margs, loc, canvas,
                   lmask, outside, calls, prevRet>>

\* lines 216-231: the conversion to HSV and the call of
\* generate_parallel_light_mask with the fields of the object.  cv2.cvtColor
\* raises on an array of shape (h, w, 1).
ConvertHSV ==
    /\ pc = "convert"
    /\ IF ConvertsToHSV(frame)
       THEN /\ margs' = [w |-> frame.w, h |-> frame.h,
                         position |-> cfg.light_position,
                         direction |-> cfg.direction,
                         max_brightness |-> cfg.max_brightness,
                         min_brightness |-> cfg.min_brightness,
                         mode |-> cfg.mode,
                         linear_decay_rate |-> cfg.linear_decay_rate]
            /\ log' = log \o <<"alloc_hsv">>
            /\ pc' = "mask_resolve"
       ELSE /\ pc' = "error"
            /\ UNCHANGED <<margs, log>>
    /\ UNCHANGED <<cfg, image, extras, force, answer, ran, rng, rng0, caller, frame,
                   image_alpha, has_alpha, transparency, loc, canvas, lmask,
                   outside, ret, calls, prevRet>>

\* ------------------------------------------- generate_parallel_light_mask
\* lines 96-111: the defaults are resolved
ResolveParams ==
    /\ pc = "mask_resolve"
    /\ LET res == ResolveMaskParams(margs, rng)
       IN  /\ loc' = [pos_x |-> res.pos_x, pos_y |-> res.pos_y,
                      direction |-> res.direction, mode |-> res.mode,
                      linear_decay_rate |-> res.linear_decay_rate]
           /\ rng' = res.rng
           /\ log' = log \o res.events
    /\ pc' = "mask_canvas"
    /\ UNCHANGED <<cfg, image, extras, force, answer, ran, rng0, caller, frame,
                   image_alpha, has_alpha, transparency, margs, canvas, lmask,
                   outside, ret, calls, prevRet>>

\* lines 113-127: the canvas is allocated and filled with the decay profile
BuildCanvas ==
    /\ pc = "mask_canvas"
    /\ canvas' = BuildCanvasOf(margs, loc)
    /\ log' = log \o <<"alloc_canvas", "canvas_built">>
    /\ pc' = "mask_rotate"
    /\ UNCHANGED <<cfg, image, extras, force, answer, ran, rng, rng0, caller, frame,
                   image_alpha, has_alpha, transparency, margs, loc, lmask,
                   outside, ret, calls, prevRet>>

\* lines 130-136: rotation about the anchor and crop
RotateCrop ==
    /\ pc = "mask_rotate"
    /\ lmask' = RotateCropOf(margs, canvas, loc.direction)
    /\ outside' = OutsideReads(margs, canvas, loc.direction)
    /\ log' = log \o <<"rotated_cropped">>
    /\ pc' = "mask_finish"
    /\ UNCHANGED <<cfg, image, extras, force, answer, ran, rng, rng0, caller, frame,
                   image_alpha, has_alpha, transparency, margs, loc, canvas,
                   ret, calls, prevRet>>

\* lines 137-142: cast, median blur, inversion, return
Finish ==
    /\ pc = "mask_finish"
    /\ lmask' = FinishOf(margs, lmask)
    /\ log' = log \o <<"finished">>
    /\ IF caller = "direct"
       THEN pc' = "done" /\ ret' = RetMask(lmask')
       ELSE pc' = "composite" /\ ret' = ret
    /\ UNCHANGED <<cfg, image, extras, force, answer, ran, rng, rng0, caller, frame,
                   image_alpha, has_alpha, transparency, margs, loc, canvas,
                   outside, calls, prevRet>>

CompositeM ==
    /\ pc = "composite"
    /\ LET t     == IF TransparencyUnset(cfg.transparency)
                    THEN RandTransparency(rng) ELSE transparency
           plane == [p \in Pixels(frame.w, frame.h) |->
                        Blend(frame.v[p], lmask[p], t)]
           bgr   == ToBGR(frame, plane)
           out   == IF has_alpha THEN Reattach(bgr, image_alpha) ELSE bgr
       IN  /\ frame' = out
           /\ ret' = Output(out, extras)
           /\ transparency' = t
    /\ rng' = IF TransparencyUnset(cfg.transparency) THEN NextRng(rng) ELSE rng
    /\ log' = log \o (IF TransparencyUnset(cfg.transparency)
                      THEN <<"draw_transparency">> ELSE <<>>)
                 \o <<"composited">>
    /\ pc' = "done"
    /\ UNCHANGED <<cfg, image, extras, force, answer, ran, rng0, caller,
                   image_alpha, has_alpha, margs, loc, canvas, lmask, outside,
                   calls, prevRet>>

\* lines 232-250: the blend into the value plane, the conversion back, the
\* clamp, the alpha channel reattached, and the value returned
Composite ==
    /\ pc = "composite"
    /\ LET plane == [p \in Pixels(frame.w, frame.h) |->
                        Blend(frame.v[p], lmask[p], transparency)]
           bgr   == ToBGR(frame, plane)
           out   == IF has_alpha THEN Reattach(bgr, image_alpha) ELSE bgr
       IN  /\ frame' = out
           /\ ret' = Output(out, extras)
    /\ log' = log \o <<"composited">>
    /\ pc' = "done"
    /\ UNCHANGED <<cfg, image, extras, force, answer, ran, rng, rng0, caller,
                   image_alpha, has_alpha, transparency, margs, loc, canvas,
                   lmask, outside, calls, prevRet>>

\* the object is called again with the same arguments; in between, other
\* users of the random module may have left the generator in any state
Again ==
    /\ pc \in {"done", "error"}
    /\ caller = "call"
    /\ calls < MaxCalls
    /\ calls' = calls + 1
    /\ prevRet' = ret
    /\ \E r \in RngStates : rng' = r /\ rng0' = r
    /\ pc' = "idle"
    /\ ran' = FALSE
    /\ answer' = "unasked"
    /\ frame' = NoImage
    /\ image_alpha' = NoRaster
    /\ has_alpha' = FALSE
    /\ transparency' = NoneInt
    /\ margs' = NoArgs
    /\ loc' = NoLoc
    /\ canvas' = NoCanvas
    /\ lmask' = NoRaster
    /\ outside' = {}
    /\ ret' = RetNone
    /\ log' = <<>>
    /\ UNCHANGED <<cfg, image, extras, force, caller>>

\* ------------------------------------------------------------ initial states
Positions == {NonePair, <<0, 0>>, <<1, 1>>, <<MaxDim, MaxDim>>}
Directions == {NoneInt, 90, 180, 270}
Rates == {NonePair, <<5, 10>>, <<20, 10>>}
BrightnessPairs == {<<DefaultMax, DefaultMin>>, <<DefaultMax, 100>>, <<2, 0>>}
ExtraValues == {NoneInt, 1}

\* generate_parallel_light_mask is called directly
InitMask ==
    /\ margs \in {[w |-> w, h |-> h, position |-> ps, direction |-> d,
                   max_brightness |-> b[1], min_brightness |-> b[2],
                   mode |-> m, linear_decay_rate |-> lr] :
                     w \in 1 .. MaxDim, h \in 1 .. MaxDim, ps \in Positions,
                     d \in Directions, b \in BrightnessPairs, m \in Modes,
                     lr \in Rates}
    /\ rng \in RngStates
    /\ rng0 = rng
    /\ pc = "mask_resolve"
    /\ caller = "direct"
    /\ cfg = NoCfg
    /\ image = NoImage
    /\ extras = NoExtras
    /\ force = FALSE
    /\ ran = FALSE
    /\ answer = "unasked"
    /\ frame = NoImage
    /\ image_alpha = NoRaster
    /\ has_alpha = FALSE
    /\ transparency = NoneInt
    /\ loc = NoLoc
    /\ canvas = NoCanvas
    /\ lmask = NoRaster
    /\ outside = {}
    /\ ret = RetNone
    /\ log = <<>>
    /\ calls = 1
    /\ prevRet = RetNone

\* lines 40-62: the object as __init__ leaves it
Configs ==
    {[light_position |-> ps, direction |-> d, max_brightness |-> DefaultMax,
      min_brightness |-> DefaultMin, mode |-> m, linear_decay_rate |-> lr,
      transparency |-> t] :
        ps \in {NonePair, <<1, 1>>}, d \in {NoneInt, 90}, m \in Modes,
        lr \in {NonePair, <<5, 10>>}, t \in {NoneInt, 70}}

InitLocals ==
    /\ rng0 = rng
    /\ pc = "idle"
    /\ caller = "call"
    /\ ran = FALSE
    /\ answer = "unasked"
    /\ frame = NoImage
    /\ image_alpha = NoRaster
    /\ has_alpha = FALSE
    /\ transparency = NoneInt
    /\ margs = NoArgs
    /\ loc = NoLoc
    /\ canvas = NoCanvas
    /\ lmask = NoRaster
    /\ outside = {}
    /\ ret = RetNone
    /\ log = <<>>
    /\ calls = 1
    /\ prevRet = RetNone

\* one invocation of __call__
InitCall ==
    /\ cfg \in Configs
    /\ image \in Images
    /\ extras \in [mask : ExtraValues, keypoints : ExtraValues,
                   bounding_boxes : ExtraValues]
    /\ force \in BOOLEAN
    /\ rng \in RngStates
    /\ InitLocals

\* repeated invocations of __call__ with the same arguments
InitRepeat ==
    /\ cfg \in Configs
    /\ image \in Images
    /\ extras = NoExtras
    /\ force \in BOOLEAN
    /\ rng \in RngStates
    /\ InitLocals

NextMask == ResolveParams \/ BuildCanvas \/ RotateCrop \/ Finish
NextCall == Call \/ ConvertHSV \/ ResolveParams \/ BuildCanvas \/ RotateCrop
            \/ Finish \/ Composite
NextRepeat == Call \/ ConvertHSV \/ ResolveParams \/ BuildCanvas \/ RotateCrop
              \/ Finish \/ Composite \/ Again

SpecMask == InitMask /\ [][NextMask]_vars
SpecCall == InitCall /\ [][NextCall]_vars
SpecRepeat == InitRepeat /\ [][NextRepeat]_vars

\* ------------------------------------------------------------- properties
DrawEvents == {"draw_position", "draw_direction", "draw_rate",
               "draw_transparency"}
AllocEvents == {"alloc_copy", "alloc_hsv", "alloc_canvas"}
Stages == <<"canvas_built", "rotated_cropped", "finished", "composited">>
IsStage(e) == \E i \in DOMAIN Stages : Stages[i] = e
IsDraw(e) == e \in DrawEvents
IsPrefix(s, t) == Len(s) <= Len(t) /\ \A i \in DOMAIN s : s[i] = t[i]
Count(e) == Cardinality({i \in DOMAIN log : log[i] = e})
Returned == ran /\ pc = "done"
SameShape(a, b) == a.w = b.w /\ a.h = b.h /\ a.ndim = b.ndim /\ a.ch = b.ch

\* C1: a call that runs returns an image of the shape and channel count of
\* the input, for every input with 1, 3 or 4 channels, a 2-D array included.
C1_ShapePreserved ==
    Returned => SameShape(ret.image, image)

\* C2: with force false and should_run() answering false, the call returns
\* the input image, and draws nothing and builds no mask.
C2_ReturnsInput ==
    (pc # "idle" /\ ~force /\ answer = "false")
        => /\ pc = "done"
           /\ ret = RetImage(image)
           /\ rng = rng0 /\ log = <<>>
           /\ canvas = NoCanvas /\ lmask = NoRaster

\* C2, amended: with force false and should_run() answering false, the call
\* returns None; it draws nothing, builds no mask and copies no frame.
C2_ReturnsNone ==
    (pc # "idle" /\ ~force /\ answer = "false")
        => /\ pc = "done"
           /\ ret = RetNone
           /\ rng = rng0 /\ log = <<>>
           /\ canvas = NoCanvas /\ lmask = NoRaster /\ frame = NoImage

C2_Witness == pc = "done" /\ ~force /\ answer = "false" /\ ~ran

\* the profile is written, in linear mode with a positive rate
LinearWritten ==
    /\ pc \in {"mask_rotate", "mask_finish", "done"}
    /\ loc.mode # "gaussian"
    /\ loc.linear_decay_rate[1] > 0 /\ loc.linear_decay_rate[2] > 0

\* max_brightness - |center - x| * rate, times the denominator of the rate
RawLinear(x) ==
    margs.max_brightness * loc.linear_decay_rate[2]
    - Abs((canvas.padding + loc.pos_y) - x) * loc.linear_decay_rate[1]

\* C3: in linear mode the value written at every index x of the canvas is
\* max(1, max_brightness - |center - x| * rate), and none is below 1.
C3_MaxOfOne ==
    LinearWritten =>
        \A x \in 0 .. (canvas.canvas_y - 1) :
            /\ canvas.profile[x][2] = loc.linear_decay_rate[2]
            /\ canvas.profile[x][1] = Max2(loc.linear_decay_rate[2], RawLinear(x))

\* C3, amended: the value written at index x is
\* v = max_brightness - |center - x| * rate when v >= 0, and 1 when v < 0;
\* none is negative.
C3_FloorOfNegative ==
    LinearWritten =>
        \A x \in 0 .. (canvas.canvas_y - 1) :
            /\ canvas.profile[x][2] = loc.linear_decay_rate[2]
            /\ canvas.profile[x][1] =
                  (IF RawLinear(x) < 0 THEN loc.linear_decay_rate[2]
                   ELSE RawLinear(x))
            /\ canvas.profile[x][1] >= 0

C3_Witness ==
    /\ LinearWritten
    /\ \E x \in 0 .. (canvas.canvas_y - 1) : RawLinear(x) < 0
    /\ \E x \in 0 .. (canvas.canvas_y - 1) :
          RawLinear(x) >= 0 /\ RawLinear(x) < loc.linear_decay_rate[2]

\* C4: the alpha channel of the output of a call that ran on a 4-channel
\* image is the alpha channel of the input, sample for sample.
C4_AlphaPreserved ==
    (Returned /\ image.ch = 4)
        => /\ ret.image.ch = 4
           /\ ret.image.a = image.a

C4_Witness ==
    /\ Returned /\ image.ch = 4 /\ image.w > 1
    /\ ret.image.v # image.v

\* C5: when one of mask, keypoints, bounding_boxes is supplied the call that
\* ran returns [image, mask, keypoints, bounding_boxes] with the three values
\* as passed; when none is, it returns the image alone.
C5_PassThrough ==
    Returned =>
        /\ ret.image = frame
        /\ IF \E f \in DOMAIN extras : extras[f] # NoneInt
           THEN ret.kind = "list" /\ ret.extras = extras
           ELSE ret.kind = "image"

C5_Witness ==
    /\ Returned
    /\ extras.mask = NoneInt /\ extras.keypoints # NoneInt
    /\ extras.bounding_boxes = NoneInt
    /\ ret.kind = "list"

\* the draws of a run, in order
Draws(s) == SelectSeq(s, IsDraw)

\* C6: called with an unknown mode, generate_parallel_light_mask makes the
\* draws and returns the mask of the same call with mode "gaussian" from the
\* same generator state, and takes the Gaussian branch.
C6_FallbackIsGaussian ==
    (pc = "done" /\ caller = "direct" /\ margs.mode \notin ValidModes)
        => LET g == generate_parallel_light_mask(
                        [margs EXCEPT !.mode = "gaussian"], rng0)
           IN  /\ loc.mode = "gaussian"
               /\ ret.mask = g.mask
               /\ rng = g.rng
               /\ Draws(log) = g.events

C6_Witness ==
    /\ pc = "done" /\ caller = "direct" /\ margs.mode \notin ValidModes
    /\ margs.linear_decay_rate = NonePair
    /\ margs.position = NonePair /\ margs.direction = NoneInt
    /\ \E p \in DOMAIN ret.mask : ret.mask[p] < MaxSample

AllSupplied ==
    /\ cfg.light_position # NonePair /\ cfg.direction # NoneInt
    /\ cfg.linear_decay_rate # NonePair /\ cfg.transparency # NoneInt

\* C7: with light_position, direction, linear_decay_rate and transparency all
\* supplied, a call that runs draws nothing in any mode, and a second call
\* with the same image returns what the first returned, whatever the state
\* of the generator.
C7_NoDrawWhenSupplied ==
    (AllSupplied /\ ran)
        => /\ rng = rng0
           /\ Draws(log) = <<>>
           /\ (pc = "done" /\ prevRet.kind # "None") => ret = prevRet

C7_Witness ==
    /\ AllSupplied /\ Returned /\ calls = 2 /\ prevRet.kind = "image"
    /\ cfg.mode = "linear_static"
    /\ ret.image.v # image.v

\* the anchor lies in the range it is sampled from
AnchorInRange ==
    /\ 0 <= loc.pos_x /\ loc.pos_x <= margs.w
    /\ 0 <= loc.pos_y /\ loc.pos_y <= margs.h

\* C8: with the anchor in [0, width] x [0, height], no pixel of the cropped
\* mask is read from outside the padded canvas, for every direction.
C8_NoOutsideRead ==
    (pc \in {"mask_finish", "done"} /\ AnchorInRange) => outside = {}

\* C9: with max_brightness >= min_brightness, every value of the decay
\* profile lies between min_brightness and max_brightness, in every mode.
C9_ProfileInRange ==
    (pc \in {"mask_rotate", "mask_finish", "done"}
     /\ margs.max_brightness >= margs.min_brightness)
        => \A x \in 0 .. (canvas.canvas_y - 1) :
              /\ margs.min_brightness * canvas.profile[x][2]
                    <= canvas.profile[x][1]
              /\ canvas.profile[x][1]
                    <= margs.max_brightness * canvas.profile[x][2]

AtMostOnce == \A e \in DrawEvents : Count(e) <= 1
StagesInOrder == IsPrefix(SelectSeq(log, IsStage), Stages)
NoDrawAfter(events) ==
    \A i, j \in DOMAIN log :
        (i < j /\ log[i] \in events) => log[j] \notin DrawEvents

\* C10: every parameter is drawn at most once, every draw precedes every
\* buffer allocation of the invocation (image copy, HSV buffer, mask
\* canvas), and the stages follow in order with no draw after them.
C10_DrawsBeforeAllocation ==
    /\ AtMostOnce
    /\ NoDrawAfter(AllocEvents)
    /\ NoDrawAfter({Stages[i] : i \in DOMAIN Stages})
    /\ StagesInOrder

\* C10, amended: every parameter is drawn at most once and every draw
\* precedes the allocation of the mask canvas; the image copy comes first of
\* all, before the draw of the transparency, and the HSV buffer before the
\* draws of position, direction and rate; from the canvas on the stages
\* follow in order with no draw.
C10_DrawsBeforeCanvas ==
    /\ AtMostOnce
    /\ NoDrawAfter({"alloc_canvas"})
    /\ NoDrawAfter({Stages[i] : i \in DOMAIN Stages})
    /\ StagesInOrder
    /\ (log # <<>> /\ caller = "call") => log[1] = "alloc_copy"
    /\ \A i, j \in DOMAIN log :
          (log[i] = "alloc_hsv"
           /\ log[j] \in {"draw_position", "draw_direction", "draw_rate"})
             => i < j

C10_Witness ==
    /\ Returned
    /\ \A e \in DrawEvents : Count(e) = 1
    /\ log[Len(log)] = "composited"

====
